---------------------------- MODULE Spec2Model ----------------------------
(***************************************************************************)
(* A model of the interactive knowledge CLI (deepseek_cli/knowledge_cli.py):*)
(* the knowledge store file, the per-session conversation state and the    *)
(* operations of InteractiveKnowledgeCLI.                                  *)
(*                                                                         *)
(* Python strings are sequences of one-character strings.  Python objects  *)
(* held in the knowledge document (str, int, list, dict) are tagged        *)
(* records [t, v]; a dict is the sequence of its <<key, value>> pairs in   *)
(* insertion order.                                                        *)
(***************************************************************************)
EXTENDS Integers, Sequences, FiniteSets, TLC

VARIABLES
    file,                  \* .knowledge/knowledge_base.json: [exists, text]
    conversation_history,  \* self.conversation_history
    current_context,       \* self.current_context
    deepseek,              \* self.deepseek is set (an API key is configured)
    clock,                 \* the value the next datetime.now() returns
    pc,                    \* "running" | "exited": the process
    last                   \* what the last operation was given and what it did

vars == <<file, conversation_history, current_context, deepseek, clock, pc, last>>

(***************************************************************************)
(* Python str and list primitives                                          *)
(***************************************************************************)
Min(a, b) == IF a <= b THEN a ELSE b

Max(a, b) == IF a >= b THEN a ELSE b

\* s[:n]
Take(s, n) == SubSeq(s, 1, Min(n, Len(s)))

\* s[-n:]  (n > 0)
LastN(s, n) == SubSeq(s, Max(1, Len(s) - n + 1), Len(s))

Rep(c, n) == [i \in 1..n |-> c]

UpperCase == <<"A","B","C","D","E","F","G","H","I","J","K","L","M",
               "N","O","P","Q","R","S","T","U","V","W","X","Y","Z">>

LowerCase == <<"a","b","c","d","e","f","g","h","i","j","k","l","m",
               "n","o","p","q","r","s","t","u","v","w","x","y","z">>

UpperSet == {UpperCase[i] : i \in 1..26}

LowerOf == [c \in UpperSet |-> LowerCase[CHOOSE i \in 1..26 : UpperCase[i] = c]]

LowerChar(c) == IF c \in UpperSet THEN LowerOf[c] ELSE c

\* str.lower()
Lower(s) == [i \in 1..Len(s) |-> LowerChar(s[i])]

\* the characters str.strip() removes
Whitespace == {" ", "\t", "\n", "\r", "\f"}

\* str.strip()
Strip(s) ==
    LET keep == {i \in 1..Len(s) : s[i] \notin Whitespace}
    IN  IF keep = {} THEN <<>>
        ELSE SubSeq(s, CHOOSE i \in keep : \A j \in keep : i <= j,
                       CHOOSE i \in keep : \A j \in keep : i >= j)

\* str.startswith(p)
StartsWith(s, p) == Len(p) <= Len(s) /\ SubSeq(s, 1, Len(p)) = p

\* p in s
Contains(s, p) ==
    \E i \in 0..(Len(s) - Len(p)) : SubSeq(s, i + 1, i + Len(p)) = p

\* str.split('\n')
SplitLines(s) ==
    LET nl    == {i \in 1..Len(s) : s[i] = "\n"}
        cut   == nl \cup {0, Len(s) + 1}
        nth(k) == CHOOSE i \in cut : Cardinality({j \in cut : j < i}) = k
    IN  [k \in 1..(Cardinality(nl) + 1) |-> SubSeq(s, nth(k - 1) + 1, nth(k) - 1)]

RECURSIVE JoinFrom(_, _, _)
JoinFrom(sep, parts, k) ==
    IF k > Len(parts) THEN <<>>
    ELSE IF k = Len(parts) THEN parts[k]
    ELSE parts[k] \o sep \o JoinFrom(sep, parts, k + 1)

\* sep.join(parts)
Join(sep, parts) == JoinFrom(sep, parts, 1)

(***************************************************************************)
(* Python objects of the knowledge document                                *)
(***************************************************************************)
PyStr(s)   == [t |-> "str",  v |-> s]

PyInt(n)   == [t |-> "int",  v |-> n]

PyList(xs) == [t |-> "list", v |-> xs]

PyDict(ps) == [t |-> "dict", v |-> ps]

\* the literal field names of the document, as Python strings
K_summary == PyStr(<<"s","u","m","m","a","r","y">>)

K_core_instructions ==
    PyStr(<<"c","o","r","e","_","i","n","s","t","r","u","c","t","i","o","n","s">>)

K_api_interactions ==
    PyStr(<<"a","p","i","_","i","n","t","e","r","a","c","t","i","o","n","s">>)

K_conversations == PyStr(<<"c","o","n","v","e","r","s","a","t","i","o","n","s">>)

K_timestamp == PyStr(<<"t","i","m","e","s","t","a","m","p">>)

K_query == PyStr(<<"q","u","e","r","y">>)

K_response == PyStr(<<"r","e","s","p","o","n","s","e">>)

K_context == PyStr(<<"c","o","n","t","e","x","t">>)

K_history == PyStr(<<"h","i","s","t","o","r","y">>)

K_instructions == PyStr(<<"i","n","s","t","r","u","c","t","i","o","n","s">>)

K_usage_count == PyStr(<<"u","s","a","g","e","_","c","o","u","n","t">>)

K_source_conversation ==
    PyStr(<<"s","o","u","r","c","e","_","c","o","n","v","e","r","s","a","t","i","o","n">>)

K_role == PyStr(<<"r","o","l","e">>)

K_content == PyStr(<<"c","o","n","t","e","n","t">>)

\* k in d   (d a dict)
DictHas(d, k) == \E i \in 1..Len(d.v) : d.v[i][1] = k

\* d[k]     (k in d)
DictGet(d, k) == d.v[CHOOSE i \in 1..Len(d.v) : d.v[i][1] = k][2]

\* d[k] = x : an existing key keeps its place, a new key goes last
DictSet(d, k, x) ==
    IF DictHas(d, k)
    THEN PyDict([i \in 1..Len(d.v) |-> IF d.v[i][1] = k THEN <<k, x>> ELSE d.v[i]])
    ELSE PyDict(Append(d.v, <<k, x>>))

\* list(d.keys())
DictKeys(d) == [i \in 1..Len(d.v) |-> d.v[i][1]]

\* datetime.now().isoformat(): the clock reading as text
Digits == <<"0","1","2","3","4","5","6","7","8","9">>

IsoFormat(n) == <<"T", Digits[((n \div 10) % 10) + 1], Digits[(n % 10) + 1]>>

(***************************************************************************)
(* json.dump / json.load.  The text of a JSON document is kept as its      *)
(* syntax tree: a string is the sequence of its escaped units as written   *)
(* between the quotes, a number is its decimal digits, an object is its    *)
(* members in the order written.                                           *)
(***************************************************************************)
\* U+2022, the bullet of the marker list: one (non-ASCII) character
Bullet == "U+2022"

\* the characters json.dump writes as an escape (ensure_ascii is on)
Escaped == {"\"", "\\", "\n", "\r", "\t", "\f", Bullet}

EscapeOf ==
    [c \in Escaped |->
        CASE c = "\"" -> <<"\\", "\"">>
          [] c = "\\" -> <<"\\", "\\">>
          [] c = "\n" -> <<"\\", "n">>
          [] c = "\r" -> <<"\\", "r">>
          [] c = "\t" -> <<"\\", "t">>
          [] c = "\f" -> <<"\\", "f">>
          [] c = Bullet -> <<"\\", "u", "2", "0", "2", "2">>]

\* json.dump writes a character of a string
EscapeChar(c) == IF c \in Escaped THEN EscapeOf[c] ELSE <<c>>

\* an escaped unit read as the character after the backslash
UnescapeUnitLiteral(u) == u[Len(u)]

\* json.load reads one escaped unit of a string
UnescapeUnit(u) ==
    IF Len(u) = 1 THEN u[1]
    ELSE CASE u[2] = "n" -> "\n"
           [] u[2] = "r" -> "\r"
           [] u[2] = "t" -> "\t"
           [] u[2] = "f" -> "\f"
           [] u[2] = "u" -> Bullet
           [] OTHER -> u[2]

RECURSIVE IntToDigits(_)
IntToDigits(n) ==
    IF n < 10 THEN <<Digits[n + 1]>>
    ELSE Append(IntToDigits(n \div 10), Digits[(n % 10) + 1])

RECURSIVE DigitsToInt(_)
DigitsToInt(ds) ==
    IF ds = <<>> THEN 0
    ELSE 10 * DigitsToInt(SubSeq(ds, 1, Len(ds) - 1))
         + ((CHOOSE i \in 1..10 : Digits[i] = ds[Len(ds)]) - 1)

\* the text of a string: the string itself when no character of it is
\* escaped (esc is FALSE), else the escaped unit of each character
JsonString(s) ==
    IF \E i \in 1..Len(s) : s[i] \in Escaped
    THEN [t |-> "string", esc |-> TRUE, v |-> [i \in 1..Len(s) |-> EscapeChar(s[i])]]
    ELSE [t |-> "string", esc |-> FALSE, v |-> s]

\* a dict key as json.dump writes it: a str as it is, an int as its digits
KeyText(k) == IF k.t = "int" THEN JsonString(IntToDigits(k.v)) ELSE JsonString(k.v)

\* json.dump(data, f, indent=2): the text written for a Python object
RECURSIVE json_dump(_)
json_dump(x) ==
    CASE x.t = "str"  -> JsonString(x.v)
      [] x.t = "int"  -> [t |-> "number", v |-> IntToDigits(x.v)]
      [] x.t = "list" -> [t |-> "array",
                          v |-> [i \in 1..Len(x.v) |-> json_dump(x.v[i])]]
      [] x.t = "dict" -> [t |-> "object",
                          v |-> [i \in 1..Len(x.v) |->
                                    <<KeyText(x.v[i][1]), json_dump(x.v[i][2])>>]]

LoadString(j) ==
    IF j.esc THEN PyStr([i \in 1..Len(j.v) |-> UnescapeUnit(j.v[i])]) ELSE PyStr(j.v)

\* json.load(f): the Python object a text denotes; the members of an object
\* are put into the dict one after another
RECURSIVE json_load(_)
RECURSIVE LoadMembers(_, _, _)
LoadMembers(ms, k, acc) ==
    IF k > Len(ms) THEN acc
    ELSE LoadMembers(ms, k + 1, DictSet(acc, LoadString(ms[k][1]), json_load(ms[k][2])))

json_load(j) ==
    CASE j.t = "string" -> LoadString(j)
      [] j.t = "number" -> PyInt(DigitsToInt(j.v))
      [] j.t = "array"  -> PyList([i \in 1..Len(j.v) |-> json_load(j.v[i])])
      [] j.t = "object" -> LoadMembers(j.v, 1, PyDict(<<>>))

\* text json.load cannot parse (a truncated or foreign file)
Garbage == [t |-> "garbage", v |-> <<>>]

\* no file at self.knowledge_file
NoFile == [exists |-> FALSE, text |-> Garbage]

(***************************************************************************)
(* Storage: save_knowledge, load_knowledge, setup_directories              *)
(***************************************************************************)
DefaultDocument ==
    PyDict(<< <<K_summary, PyList(<<>>)>>,
              <<K_core_instructions, PyDict(<<>>)>>,
              <<K_api_interactions, PyList(<<>>)>>,
              <<K_conversations, PyList(<<>>)>> >>)

\* save_knowledge(data): the file after the call
save_knowledge(data) == [exists |-> TRUE, text |-> json_dump(data)]

\* load_knowledge(): open and json.load; any failure gives the default document
load_knowledge(f) ==
    IF f.exists /\ f.text.t # "garbage" THEN json_load(f.text) ELSE DefaultDocument

\* setup_directories(): an absent store file is created with the default document
setup_directories(f) == IF ~f.exists THEN save_knowledge(DefaultDocument) ELSE f

(***************************************************************************)
(* search_knowledge and add_to_knowledge                                   *)
(***************************************************************************)
\* the line prefixes of a numbered or bulleted line
Markers == { <<"1", ".">>, <<"2", ".">>, <<"3", ".">>, <<"4", ".">>, <<"5", ".">>,
             <<"-", " ">>, <<"*", " ">>, <<Bullet, " ">> }

KeyPointText == <<"k","e","y"," ","p","o","i","n","t">>

ImportantText == <<"i","m","p","o","r","t","a","n","t",":">>

\* the test with the markers read by their first character alone
IsCorePointAnyDash(line) ==
    \/ \E m \in Markers : StartsWith(Strip(line), <<m[1]>>)
    \/ Contains(Lower(line), KeyPointText)
    \/ Contains(Lower(line), ImportantText)

\* the test of the extraction loop on one line
IsCorePoint(line) ==
    \/ \E m \in Markers : StartsWith(Strip(line), m)
    \/ Contains(Lower(line), KeyPointText)
    \/ Contains(Lower(line), ImportantText)

\* the most core points one response gives
MaxCorePoints == 3

\* the extraction loop from line k on, core_points being acc
RECURSIVE CorePointsFrom(_, _, _)
CorePointsFrom(lines, k, acc) ==
    IF k > Len(lines) THEN acc
    ELSE IF IsCorePoint(lines[k])
         THEN IF Len(acc) + 1 >= MaxCorePoints
              THEN Append(acc, Strip(lines[k]))
              ELSE CorePointsFrom(lines, k + 1, Append(acc, Strip(lines[k])))
         ELSE CorePointsFrom(lines, k + 1, acc)

\* core_points after the loop over response.split('\n')
CorePoints(response) == CorePointsFrom(SplitLines(response), 1, <<>>)

TopicLen == 50

QueryCap == 500

ResponseCap == 1000

Ellipsis == <<".", ".", ".">>

\* the topic without the mark of a cut
TopicCut(query) == Take(query, TopicLen)

\* topic = query[:50] + ("..." if len(query) > 50 else "")
Topic(query) == Take(query, TopicLen) \o (IF Len(query) > TopicLen THEN Ellipsis ELSE <<>>)

\* a Python list of str
StrList(xs) == PyList([i \in 1..Len(xs) |-> PyStr(xs[i])])

\* the conversation dict add_to_knowledge builds
ShortRecord(now, query, response, context) ==
    PyDict(<< <<K_timestamp, PyStr(IsoFormat(now))>>,
              <<K_query, PyStr(Take(query, QueryCap))>>,
              <<K_response, PyStr(Take(response, ResponseCap))>>,
              <<K_context, StrList(context)>> >>)

\* the entry with the length of conversations as its source
InstructionEntryByLength(now, core_points, source) ==
    PyDict(<< <<K_timestamp, PyStr(IsoFormat(now))>>,
              <<K_instructions, PyStr(Join(<<"\n">>, core_points))>>,
              <<K_usage_count, PyInt(1)>>,
              <<K_source_conversation, PyInt(source + 1)>> >>)

\* the dict stored under knowledge["core_instructions"][topic]
InstructionEntry(now, core_points, source) ==
    PyDict(<< <<K_timestamp, PyStr(IsoFormat(now))>>,
              <<K_instructions, PyStr(Join(<<"\n">>, core_points))>>,
              <<K_usage_count, PyInt(1)>>,
              <<K_source_conversation, PyInt(source)>> >>)

\* add_to_knowledge(query, response) with the store file f, the context list
\* and the clock: whether it raised, the file and the clock afterwards
add_to_knowledge(f, context, now, query, response) ==
    LET knowledge    == load_knowledge(f)
        conversation == ShortRecord(now, query, response, context)
        withList     == IF DictHas(knowledge, K_conversations) THEN knowledge
                        ELSE DictSet(knowledge, K_conversations, PyList(<<>>))
        appended     == DictSet(withList, K_conversations,
                          PyList(Append(DictGet(withList, K_conversations).v, conversation)))
        core_points  == CorePoints(response)
        topic        == PyStr(Topic(query))
        source       == Len(DictGet(appended, K_conversations).v) - 1
        written      == DictSet(appended, K_core_instructions,
                          DictSet(DictGet(appended, K_core_instructions), topic,
                                  InstructionEntry(now + 1, core_points, source)))
    IN  IF knowledge.t # "dict" THEN [raised |-> TRUE, file |-> f, clock |-> now + 1]
        ELSE IF DictGet(withList, K_conversations).t # "list"
        THEN [raised |-> TRUE, file |-> f, clock |-> now + 1]
        ELSE IF core_points = <<>>
        THEN [raised |-> FALSE, file |-> save_knowledge(appended), clock |-> now + 1]
        ELSE IF ~DictHas(appended, K_core_instructions)
                \/ DictGet(appended, K_core_instructions).t # "dict"
        THEN [raised |-> TRUE, file |-> f, clock |-> now + 1]
        ELSE [raised |-> FALSE, file |-> save_knowledge(written), clock |-> now + 2]

\* one result of search_knowledge
SearchResult(topic, content) ==
    [type |-> "core_instructions", topic |-> topic, content |-> content]

\* the loop with the test of the topic alone
RECURSIVE SearchFromTopics(_, _, _, _)
SearchFromTopics(items, query_lower, k, results) ==
    IF k > Len(items) THEN results
    ELSE IF Contains(Lower(items[k][1].v), query_lower)
         THEN SearchFromTopics(items, query_lower, k + 1,
                               Append(results, SearchResult(items[k][1].v, items[k][2])))
         ELSE SearchFromTopics(items, query_lower, k + 1, results)

\* the loop of search_knowledge over the items from k on
RECURSIVE SearchFrom(_, _, _, _)
SearchFrom(items, query_lower, k, results) ==
    IF k > Len(items) THEN results
    ELSE IF \/ Contains(Lower(items[k][1].v), query_lower)
            \/ Contains(Lower(DictGet(items[k][2], K_instructions).v), query_lower)
         THEN SearchFrom(items, query_lower, k + 1,
                         Append(results, SearchResult(items[k][1].v, items[k][2])))
         ELSE SearchFrom(items, query_lower, k + 1, results)

\* search_knowledge(query) on the store file f: whether it raised, and results
search_knowledge(f, query) ==
    LET knowledge == load_knowledge(f)
    IN  IF \/ knowledge.t # "dict"
           \/ ~DictHas(knowledge, K_core_instructions)
           \/ DictGet(knowledge, K_core_instructions).t # "dict"
        THEN [raised |-> TRUE, results |-> <<>>]
        ELSE [raised |-> FALSE,
              results |-> SearchFrom(DictGet(knowledge, K_core_instructions).v,
                                     Lower(query), 1, <<>>)]

(***************************************************************************)
(* The session: save_conversation, DeepSeekAPI.query, handle_user_query    *)
(***************************************************************************)
\* one {"role": ..., "content": ...} entry of conversation_history
Turn(role, content) == PyDict(<< <<K_role, PyStr(role)>>, <<K_content, PyStr(content)>> >>)

UserRole == <<"u","s","e","r">>

AssistantRole == <<"a","s","s","i","s","t","a","n","t">>

\* the conversation_record save_conversation builds
BatchRecord(now, history, context) ==
    PyDict(<< <<K_timestamp, PyStr(IsoFormat(now))>>,
              <<K_history, PyList(history)>>,
              <<K_context, StrList(context)>> >>)

\* save_conversation() that stores the record as the only conversation
save_conversation_alone(f, history, context, now) ==
    LET knowledge == load_knowledge(f)
        record    == BatchRecord(now, history, context)
        replaced  == DictSet(knowledge, K_conversations, PyList(<<record>>))
    IN  IF history = <<>> THEN [raised |-> FALSE, file |-> f, clock |-> now]
        ELSE IF knowledge.t # "dict"
        THEN [raised |-> TRUE, file |-> f, clock |-> now + 1]
        ELSE [raised |-> FALSE, file |-> save_knowledge(replaced), clock |-> now + 1]

\* save_conversation() with the store file f: whether it raised, the file and
\* the clock afterwards
save_conversation(f, history, context, now) ==
    LET knowledge == load_knowledge(f)
        record    == BatchRecord(now, history, context)
        withList  == IF DictHas(knowledge, K_conversations) THEN knowledge
                     ELSE DictSet(knowledge, K_conversations, PyList(<<>>))
        appended  == DictSet(withList, K_conversations,
                       PyList(Append(DictGet(withList, K_conversations).v, record)))
    IN  IF history = <<>> THEN [raised |-> FALSE, file |-> f, clock |-> now]
        ELSE IF knowledge.t # "dict" \/ DictGet(withList, K_conversations).t # "list"
        THEN [raised |-> TRUE, file |-> f, clock |-> now + 1]
        ELSE [raised |-> FALSE, file |-> save_knowledge(appended), clock |-> now + 1]

\* the strings DeepSeekAPI.query returns in place of an answer
ApiErrorText == <<"A","P","I"," ","E","r","r","o","r",":"," ","t","i","m","e","o","u","t">>

InvalidFormatText ==
    <<"E","r","r","o","r",":"," ","I","n","v","a","l","i","d"," ","A","P","I"," ",
      "r","e","s","p","o","n","s","e"," ","f","o","r","m","a","t">>

\* DeepSeekAPI.query(prompt), net being what the endpoint does: an answer, a
\* requests failure (connection, timeout, HTTP status), a body without the
\* expected keys, or a body that makes the indexing raise another error
ApiQuery(prompt, net) ==
    CASE net.kind = "ok"        -> [raised |-> FALSE, text |-> net.text]
      [] net.kind = "transport" -> [raised |-> FALSE, text |-> ApiErrorText]
      [] net.kind = "malformed" -> [raised |-> FALSE, text |-> InvalidFormatText]
      [] net.kind = "uncaught"  -> [raised |-> TRUE,  text |-> <<>>]

UserPrefix == <<"U","s","e","r",":"," ">>

AssistantPrefix == <<"A","s","s","i","s","t","a","n","t",":"," ">>

UserCap == 100

AssistantCap == 200

ContextKeep == 6

PromptItems == 3

TopResults == 2

SnippetCap == 200

\* current_context after an exchange is recorded (lines 291-295)
RecordContext(context, query, response) ==
    LET kept == IF Len(context) > ContextKeep THEN LastN(context, ContextKeep)
                ELSE context
    IN  kept \o << UserPrefix \o Take(query, UserCap) \o Ellipsis,
                   AssistantPrefix \o Take(response, AssistantCap) \o Ellipsis >>

\* conversation_history after an exchange is recorded (lines 287-288)
RecordHistory(history, query, response) ==
    history \o << Turn(UserRole, query), Turn(AssistantRole, response) >>

\* the context of the prompt from the rolling context (line 254)
ContextBlock(context) == Join(<<"\n">>, LastN(context, PromptItems))

\* the context of the prompt from all the search results
KnowledgeBlockAll(results) ==
    Join(<<"\n">>,
         [i \in 1..Len(results) |->
             results[i].topic \o <<":", " ">>
               \o Take(DictGet(results[i].content, K_instructions).v, SnippetCap)])

\* the context of the prompt from search results (lines 259-262)
KnowledgeBlock(results) ==
    Join(<<"\n">>,
         [i \in 1..Min(TopResults, Len(results)) |->
             results[i].topic \o <<":", " ">>
               \o Take(DictGet(results[i].content, K_instructions).v, SnippetCap)])

(***************************************************************************)
(* Inputs of the session                                                   *)
(***************************************************************************)
\* what the user types as a query
qAsk == <<"I","d","x">>

UserInputs == {qAsk}

\* an answer with one core point
rMark == <<"1","."," ","a","\n","b">>

\* the answers the completion endpoint gives
ApiTexts == {rMark}

\* what the completion endpoint does with a request
NetOutcomes ==
    [kind : {"ok"}, text : ApiTexts]
      \cup {[kind |-> k, text |-> <<>>] : k \in {"transport", "malformed", "uncaught"}}

\* the terms of /search
SearchTerms == { <<"i","D","x">>, <<"z","z">> }

\* the store as a previous version of the program left it: no "conversations"
LegacyDocument ==
    PyDict(<< <<K_summary, PyList(<<>>)>>,
              <<K_core_instructions, PyDict(<<>>)>>,
              <<K_api_interactions, PyList(<<>>)>> >>)

\* the rolling context after one exchange
OneExchange == RecordContext(<<>>, qAsk, rMark)

\* the store after earlier runs answered three queries
StockedFile ==
    LET f0 == save_knowledge(DefaultDocument)
        f1 == add_to_knowledge(f0, OneExchange, 0, qAsk \o <<" ","a">>, rMark).file
        f2 == add_to_knowledge(f1, OneExchange, 2, qAsk \o <<" ","b">>, rMark).file
    IN  add_to_knowledge(f2, OneExchange, 4, qAsk \o <<" ","c">>, rMark).file

\* the store file a session can find: freshly created, left by a previous
\* version, unreadable as JSON, or filled by earlier runs
SessionFiles ==
    { save_knowledge(DefaultDocument), save_knowledge(LegacyDocument),
      [exists |-> TRUE, text |-> Garbage], StockedFile }

\* the session takes queries and /save while the store holds fewer records
MaxRecords == 4

(***************************************************************************)
(* The interactive loop: run, process_command, handle_slash_command        *)
(***************************************************************************)
\* knowledge.get('conversations', []) of the stored document
ConversationsOf(f) ==
    LET knowledge == load_knowledge(f)
    IN  IF knowledge.t = "dict" /\ DictHas(knowledge, K_conversations)
        THEN DictGet(knowledge, K_conversations).v ELSE <<>>

\* knowledge.get('core_instructions', {}) of the stored document
CoreInstructionsOf(f) ==
    LET knowledge == load_knowledge(f)
    IN  IF knowledge.t = "dict" /\ DictHas(knowledge, K_core_instructions)
        THEN DictGet(knowledge, K_core_instructions).v ELSE <<>>

\* the number of conversation records in the text of the store file
StoreSize(f) ==
    LET members == IF f.text.t = "object" THEN f.text.v ELSE <<>>
        at      == {i \in 1..Len(members) : members[i][1] = KeyText(K_conversations)}
    IN  IF at = {} THEN 0 ELSE Len(members[CHOOSE i \in at : TRUE][2].v)

\* the loop is followed while the store holds fewer than MaxRecords records
Within == StoreSize(file) < MaxRecords

\* the record of the last operation: what it was given, what it did
Op(name) ==
    [op |-> name, query |-> <<>>, response |-> <<>>, raised |-> FALSE,
     searched |-> FALSE, context |-> <<>>, results |-> <<>>,
     ctx_before |-> current_context, value |-> PyInt(0)]

\* no operation to report: the state at the prompt after a command
Idle == [op |-> "none", query |-> <<>>, response |-> <<>>, raised |-> FALSE,
         searched |-> FALSE, context |-> <<>>, results |-> <<>>,
         ctx_before |-> <<>>, value |-> PyInt(0)]

Init ==
    /\ file \in SessionFiles
    /\ conversation_history = <<>>
    /\ current_context = <<>>
    /\ deepseek \in BOOLEAN
    /\ clock = 2 * StoreSize(file)
    /\ pc = "running"
    /\ last = Idle

\* handle_user_query(query): input that does not start with "/"
UserQuery(query, net) ==
    /\ pc = "running"
    /\ Within
    /\ LET useCtx  == current_context # <<>>
           found   == IF useCtx THEN [raised |-> FALSE, results |-> <<>>]
                      ELSE search_knowledge(file, query)
           context == IF useCtx THEN ContextBlock(current_context)
                      ELSE KnowledgeBlock(found.results)
           reply   == ApiQuery(<<context, query>>, net)
           history == RecordHistory(conversation_history, query, reply.text)
           rolling == RecordContext(current_context, query, reply.text)
           added   == add_to_knowledge(file, rolling, clock, query, reply.text)
           turn    == [Op("query") EXCEPT !.query = query, !.searched = ~useCtx,
                                          !.context = context,
                                          !.results = found.results]
       IN  IF found.raised
           THEN \* the error reaches the loop of run, which reports it
                /\ last' = [Op("query") EXCEPT !.query = query, !.searched = TRUE,
                                               !.raised = TRUE]
                /\ UNCHANGED <<file, conversation_history, current_context,
                               deepseek, clock, pc>>
           ELSE IF ~deepseek
           THEN \* "No API key configured"
                /\ last' = [turn EXCEPT !.raised = TRUE]
                /\ UNCHANGED <<file, conversation_history, current_context,
                               deepseek, clock, pc>>
           ELSE IF reply.raised
           THEN \* caught at line 301
                /\ last' = [turn EXCEPT !.raised = TRUE]
                /\ UNCHANGED <<file, conversation_history, current_context,
                               deepseek, clock, pc>>
           ELSE /\ conversation_history' = history
                /\ current_context' = rolling
                /\ file' = added.file
                /\ clock' = added.clock
                /\ last' = [turn EXCEPT !.response = reply.text,
                                        !.raised = added.raised]
                /\ UNCHANGED <<deepseek, pc>>

\* /clear
Clear ==
    /\ pc = "running"
    /\ Within
    /\ conversation_history' = <<>>
    /\ current_context' = <<>>
    /\ last' = Idle
    /\ UNCHANGED <<file, deepseek, clock, pc>>

\* /search <terms>: the results are printed
Search(terms) ==
    /\ pc = "running"
    /\ terms # <<>>
    /\ UNCHANGED vars

\* /list: the counts and the last topics are printed
List ==
    /\ pc = "running"
    /\ UNCHANGED vars

\* /save
Save ==
    /\ pc = "running"
    /\ Within
    /\ LET saved == save_conversation(file, conversation_history, current_context, clock)
       IN  /\ file' = saved.file
           /\ clock' = saved.clock
           /\ last' = [Idle EXCEPT !.op = "save", !.raised = saved.raised]
    /\ UNCHANGED <<conversation_history, current_context, deepseek, pc>>

\* /setup <key>
Setup ==
    /\ pc = "running"
    /\ deepseek' = TRUE
    /\ UNCHANGED <<file, conversation_history, current_context, clock, pc, last>>

\* /help, /context, an unknown command, an empty line, an interrupt at the
\* prompt: something is printed and the loop goes on
ShowOnly ==
    /\ pc = "running"
    /\ UNCHANGED vars

\* the finally block of run: the history is saved when the loop is left
Leave ==
    /\ pc = "running"
    /\ Within
    /\ LET saved == save_conversation(file, conversation_history, current_context, clock)
       IN  /\ file' = saved.file
           /\ clock' = saved.clock
           /\ last' = [Idle EXCEPT !.op = "leave", !.raised = saved.raised]
    /\ pc' = "exited"
    /\ UNCHANGED <<conversation_history, current_context, deepseek>>

\* /exit: sys.exit(0) leaves the loop through the finally block
Exit == Leave

\* end of input: EOFError breaks the loop
EndOfInput == Leave

\* the program is started again: __init__ on the store the last run left
Restart ==
    /\ pc = "exited"
    /\ file' = setup_directories(file)
    /\ conversation_history' = <<>>
    /\ current_context' = <<>>
    /\ pc' = "running"
    /\ last' = Idle
    /\ UNCHANGED <<deepseek, clock>>

Next ==
    \/ \E query \in UserInputs, net \in NetOutcomes : UserQuery(query, net)
    \/ Clear
    \/ \E terms \in SearchTerms : Search(terms)
    \/ List
    \/ Save
    \/ Setup
    \/ ShowOnly
    \/ Exit
    \/ EndOfInput
    \/ Restart

Spec == Init /\ [][Next]_vars

(***************************************************************************)
(* The knowledge operations on their own: add_to_knowledge,                *)
(* save_conversation and search_knowledge applied to the store with any    *)
(* query and response                                                      *)
(***************************************************************************)
\* exactly 50 characters
q50 == <<"D","B">> \o Rep("x", 48)

\* 51 characters, and 53 characters ending in three dots: both have the
\* topic q50 + "..."
q51 == q50 \o <<"y">>

q53 == q50 \o Ellipsis

Queries == {q50, q51, q53}

\* no line of it is a core point
rPlain == <<"o","k","\"","\\","\n","-","x","\n","6","."," ","n","o">>

\* four core points among six lines
rList == <<"\t","1","."," ","B","-","t","r","e","e"," ","\r","\n",
           "-","x","\n",
           Bullet," ","b","\n",
           "6","."," ","z","\n",
           "K","E","Y"," ","P","O","I","N","T"," ","c","\n",
           "*"," ","d">>

\* two core points among three lines
rTwo == <<"I","m","p","o","r","t","a","n","t",":"," ","Q","\n",
          "x","\n",
          " "," ","-"," ","e"," ">>

Responses == {rPlain, rList, rTwo}

\* what search_knowledge is asked for
Terms == { <<"d","b">>, <<"X",".">>, <<"B","-","T">>, <<"z","z">> }

\* the session state the operations are called in
StoreContext == RecordContext(<<>>, qAsk, rPlain)

StoreHistory == RecordHistory(<<>>, qAsk, rPlain)

\* the operations are applied while the store holds fewer records
MaxAdds == 2

StoreInit ==
    /\ file \in { save_knowledge(DefaultDocument), save_knowledge(LegacyDocument),
                  [exists |-> TRUE, text |-> Garbage] }
    /\ conversation_history = StoreHistory
    /\ current_context = StoreContext
    /\ deepseek = TRUE
    /\ clock = 0
    /\ pc = "running"
    /\ last = Idle

\* add_to_knowledge(query, response)
AddToKnowledge(query, response) ==
    /\ StoreSize(file) < MaxAdds
    /\ LET added == add_to_knowledge(file, current_context, clock, query, response)
       IN  /\ file' = added.file
           /\ clock' = added.clock
           /\ last' = [Idle EXCEPT !.op = "add", !.query = query,
                                   !.response = response, !.raised = added.raised]
    /\ UNCHANGED <<conversation_history, current_context, deepseek, pc>>

\* save_conversation()
SaveConversation ==
    /\ StoreSize(file) < MaxAdds
    /\ LET saved == save_conversation(file, conversation_history, current_context, clock)
       IN  /\ file' = saved.file
           /\ clock' = saved.clock
           /\ last' = [Idle EXCEPT !.op = "save", !.raised = saved.raised]
    /\ UNCHANGED <<conversation_history, current_context, deepseek, pc>>

\* search_knowledge(query)
SearchKnowledge(terms) ==
    /\ LET found == search_knowledge(file, terms)
       IN  last' = [Idle EXCEPT !.op = "search", !.query = terms, !.searched = TRUE,
                                !.raised = found.raised, !.results = found.results]
    /\ UNCHANGED <<file, conversation_history, current_context, deepseek, clock, pc>>

StoreNext ==
    \/ \E query \in Queries, response \in Responses : AddToKnowledge(query, response)
    \/ SaveConversation
    \/ \E terms \in Terms : SearchKnowledge(terms)

StoreSpec == StoreInit /\ [][StoreNext]_vars

(***************************************************************************)
(* The storage on its own: load_knowledge, save_knowledge and              *)
(* setup_directories with any store file and any knowledge document        *)
(***************************************************************************)
\* the most conversation records, and the most instruction entries, of the
\* documents saved
MaxItems == 2

\* all sequences over S of length at most n
RECURSIVE SeqsUpTo(_, _)
SeqsUpTo(S, n) ==
    IF n = 0 THEN {<<>>}
    ELSE LET shorter == SeqsUpTo(S, n - 1)
         IN  shorter \cup {Append(q, x) : q \in shorter, x \in S}

RecordPool ==
    { ShortRecord(1, q51, rList, StoreContext),
      ShortRecord(3, qAsk, rPlain, <<>>),
      BatchRecord(5, StoreHistory, StoreContext) }

EntryPool ==
    { <<PyStr(Topic(q51)), InstructionEntry(2, CorePoints(rList), 0)>>,
      <<PyStr(Topic(qAsk)), InstructionEntry(4, CorePoints(rTwo), 1)>> }

\* the knowledge documents: the four fields, with conversation records and
\* instruction entries (no topic twice) from the pools
Documents ==
    { PyDict(<< <<K_summary, PyList(<<>>)>>,
                <<K_core_instructions, PyDict(core)>>,
                <<K_api_interactions, PyList(<<>>)>>,
                <<K_conversations, PyList(convs)>> >>) :
        convs \in SeqsUpTo(RecordPool, MaxItems),
        core \in {c \in SeqsUpTo(EntryPool, MaxItems) :
                     \A i, j \in 1..Len(c) : c[i][1] = c[j][1] => i = j} }

\* JSON a store file can hold that is not a knowledge document
ForeignValues ==
    { PyDict(<<>>), PyList(<<>>), PyInt(7), PyStr(<<"x">>),
      PyDict(<< <<K_core_instructions, PyDict(<<>>)>> >>),
      PyDict(<< <<K_summary, PyList(<<>>)>>, <<K_conversations, PyList(<<>>)>> >>),
      LegacyDocument }

StorageInit ==
    /\ file \in {NoFile, [exists |-> TRUE, text |-> Garbage]}
                  \cup {save_knowledge(x) : x \in ForeignValues}
    /\ conversation_history = <<>>
    /\ current_context = <<>>
    /\ deepseek = TRUE
    /\ clock = 0
    /\ pc = "running"
    /\ last = Idle

\* load_knowledge()
LoadKnowledge ==
    /\ last' = [Idle EXCEPT !.op = "load", !.value = load_knowledge(file)]
    /\ UNCHANGED <<file, conversation_history, current_context, deepseek, clock, pc>>

\* save_knowledge(data)
SaveKnowledge(data) ==
    /\ file' = save_knowledge(data)
    /\ last' = [Idle EXCEPT !.op = "save_knowledge", !.value = data]
    /\ UNCHANGED <<conversation_history, current_context, deepseek, clock, pc>>

\* setup_directories()
SetupDirectories ==
    /\ file' = setup_directories(file)
    /\ last' = [Idle EXCEPT !.op = "setup_directories"]
    /\ UNCHANGED <<conversation_history, current_context, deepseek, clock, pc>>

StorageNext ==
    \/ LoadKnowledge
    \/ \E data \in Documents : SaveKnowledge(data)
    \/ SetupDirectories

StorageSpec == StorageInit /\ [][StorageNext]_vars

(***************************************************************************)
(* Properties of the knowledge operations (StoreSpec)                      *)
(***************************************************************************)
\* the marker rules as the specification words them: the trimmed line starts
\* with a marker, or the line holds "key point" or "important:" in any case
MarkerLine(line) ==
    LET trimmed == Strip(line)
        lowered == Lower(line)
        starts(m) == Len(trimmed) >= Len(m) /\ \A i \in 1..Len(m) : trimmed[i] = m[i]
        holds(w)  == \E at \in 1..Len(lowered) :
                        /\ at + Len(w) - 1 <= Len(lowered)
                        /\ \A i \in 1..Len(w) : lowered[at + i - 1] = w[i]
    IN  \/ \E d \in {"1", "2", "3", "4", "5"} : starts(<<d, ".">>)
        \/ \E b \in {"-", "*", Bullet} : starts(<<b, " ">>)
        \/ holds(<<"k","e","y"," ","p","o","i","n","t">>)
        \/ holds(<<"i","m","p","o","r","t","a","n","t",":">>)

\* the numbers of the lines of a response that match the marker rules
MarkerLines(response) ==
    {i \in 1..Len(SplitLines(response)) : MarkerLine(SplitLines(response)[i])}

\* the n-th smallest member of a set of numbers
Nth(S, n) == CHOOSE x \in S : Cardinality({y \in S : y < x}) = n - 1

\* the first three matching lines, trimmed, joined by newlines
FirstThree(response) ==
    LET lines == SplitLines(response)
        at    == MarkerLines(response)
    IN  Strip(lines[Nth(at, 1)]) \o <<"\n">> \o Strip(lines[Nth(at, 2)])
          \o <<"\n">> \o Strip(lines[Nth(at, 3)])

\* the key the specification gives the entry of a query
KeyOf(query) ==
    IF Len(query) > 50 THEN SubSeq(query, 1, 50) \o <<".", ".", ".">> ELSE query

\* the topics of a core_instructions mapping
TopicsOf(core) == {core[i][1].v : i \in 1..Len(core)}

\* the entry of a topic in a core_instructions mapping
EntryOf(core, topic) == core[CHOOSE i \in 1..Len(core) : core[i][1].v = topic][2]

\* C1 as claimed: after add_to_knowledge with a response of at least 3
\* matching lines the mapping has exactly one entry more, under the key of
\* the query, with the first 3 matching lines as its instructions
C1_GainsOneEntry ==
    [][ (last'.op = "add" /\ Cardinality(MarkerLines(last'.response)) >= 3) =>
          LET before == CoreInstructionsOf(file)
              after  == CoreInstructionsOf(file')
              key    == KeyOf(last'.query)
          IN  /\ Len(after) = Len(before) + 1
              /\ key \in TopicsOf(after)
              /\ DictGet(EntryOf(after, key), K_instructions).v
                    = FirstThree(last'.response) ]_vars

\* C1 as amended: after add_to_knowledge with a response of at least 3
\* matching lines the mapping holds, under the key of the query, an entry
\* with the first 3 matching lines as its instructions; every other entry is
\* as it was; the mapping has one entry more when the key was new, and as
\* many as before when the key was there (its entry is overwritten)
C1_WritesEntry ==
    [][ (last'.op = "add" /\ Cardinality(MarkerLines(last'.response)) >= 3) =>
          LET before == CoreInstructionsOf(file)
              after  == CoreInstructionsOf(file')
              key    == KeyOf(last'.query)
          IN  /\ ~last'.raised
              /\ TopicsOf(after) = TopicsOf(before) \cup {key}
              /\ DictGet(EntryOf(after, key), K_instructions).v
                    = FirstThree(last'.response)
              /\ \A t \in TopicsOf(before) \ {key} :
                    EntryOf(after, t) = EntryOf(before, t)
              /\ Len(after) = Len(before) + (IF key \in TopicsOf(before) THEN 0 ELSE 1) ]_vars

\* C1's case: the second of two calls with matching lines wrote the one entry
\* of the mapping, for a query longer than 50 characters
C1_Witness ==
    /\ last.op = "add"
    /\ Len(last.query) > 50
    /\ Cardinality(MarkerLines(last.response)) >= 3
    /\ Len(ConversationsOf(file)) = 2
    /\ Len(CoreInstructionsOf(file)) = 1
    /\ DictHas(ConversationsOf(file)[1], K_response)
    /\ MarkerLines(DictGet(ConversationsOf(file)[1], K_response).v) # {}

\* C2: after add_to_knowledge with a response of no matching line the
\* conversations have one record more, a short-form record of the query and
\* the response, and the core_instructions mapping is as it was
C2_NoMarkerNoEntry ==
    [][ (last'.op = "add" /\ MarkerLines(last'.response) = {}) =>
          LET before == ConversationsOf(file)
              after  == ConversationsOf(file')
              record == after[Len(after)]
          IN  /\ ~last'.raised
              /\ Len(after) = Len(before) + 1
              /\ SubSeq(after, 1, Len(before)) = before
              /\ DictKeys(record) = <<K_timestamp, K_query, K_response, K_context>>
              /\ DictGet(record, K_query).v = last'.query
              /\ DictGet(record, K_response).v = last'.response
              /\ CoreInstructionsOf(file') = CoreInstructionsOf(file) ]_vars

\* C2's case: a call with no matching line on a store that holds an entry
C2_Witness ==
    /\ last.op = "add"
    /\ MarkerLines(last.response) = {}
    /\ Len(CoreInstructionsOf(file)) = 1
    /\ Len(ConversationsOf(file)) = 2

\* C5: search_knowledge returns, without raising, exactly the entries whose
\* lower-cased topic or lower-cased instructions hold the lower-cased query,
\* each once, in the order of the mapping
C5_SearchResults ==
    last.op = "search" =>
        LET core    == CoreInstructionsOf(file)
            results == last.results
            wanted  == Lower(last.query)
            holds(text) ==
                \E at \in 0..Len(text) :
                    /\ at + Len(wanted) <= Len(text)
                    /\ \A i \in 1..Len(wanted) : LowerChar(text[at + i]) = wanted[i]
            hits    == {i \in 1..Len(core) :
                           \/ holds(core[i][1].v)
                           \/ holds(DictGet(core[i][2], K_instructions).v)}
        IN  /\ ~last.raised
            /\ Len(results) = Cardinality(hits)
            /\ \A n \in 1..Len(results) :
                  /\ results[n].topic = core[Nth(hits, n)][1].v
                  /\ results[n].content = core[Nth(hits, n)][2]

\* C5's case: of two entries the search finds one alone, by its instructions
\* and in another case than they are written in
C5_Witness ==
    /\ last.op = "search"
    /\ last.query = <<"B","-","T">>
    /\ Len(CoreInstructionsOf(file)) = 2
    /\ Len(last.results) = 1
    /\ ~Contains(last.results[1].topic, <<"B","-","T">>)
    /\ ~Contains(DictGet(last.results[1].content, K_instructions).v, <<"B","-","T">>)

\* C10: the source_conversation of every entry is an index into
\* conversations, of a short-form record whose query has the entry's topic as
\* its key, written by the call that wrote the entry: its timestamp is the
\* clock reading before the entry's, and the entry's instructions are the
\* matching lines of its response
C10_SourceIndex ==
    LET convs == ConversationsOf(file)
        core  == CoreInstructionsOf(file)
    IN  \A i \in 1..Len(core) :
            LET topic  == core[i][1].v
                entry  == core[i][2]
                source == DictGet(entry, K_source_conversation).v
            IN  /\ source \in 0..(Len(convs) - 1)
                /\ DictHas(convs[source + 1], K_query)
                /\ ~DictHas(convs[source + 1], K_history)
                /\ KeyOf(DictGet(convs[source + 1], K_query).v) = topic
                /\ \E t \in 0..98 :
                      /\ DictGet(convs[source + 1], K_timestamp).v = IsoFormat(t)
                      /\ DictGet(entry, K_timestamp).v = IsoFormat(t + 1)
                /\ LET lines == SplitLines(DictGet(convs[source + 1], K_response).v)
                       at    == MarkerLines(DictGet(convs[source + 1], K_response).v)
                   IN  /\ at # {}
                       /\ StartsWith(DictGet(entry, K_instructions).v,
                                     Strip(lines[Nth(at, 1)]))

\* C10's case: a /save record came first, and the call after it wrote an
\* entry whose source is the second record
C10_Witness ==
    /\ Len(ConversationsOf(file)) = 2
    /\ DictHas(ConversationsOf(file)[1], K_history)
    /\ Len(CoreInstructionsOf(file)) = 1
    /\ DictGet(CoreInstructionsOf(file)[1][2], K_source_conversation).v = 1

(***************************************************************************)
(* Properties of the session (Spec)                                        *)
(***************************************************************************)
\* the rolling-context string of one turn of the history
ContextString(turn) ==
    LET role    == DictGet(turn, K_role).v
        content == DictGet(turn, K_content).v
    IN  IF role = <<"u","s","e","r">>
        THEN <<"U","s","e","r",":"," ">>
               \o SubSeq(content, 1, Min(100, Len(content))) \o <<".",".",".">>
        ELSE <<"A","s","s","i","s","t","a","n","t",":"," ">>
               \o SubSeq(content, 1, Min(200, Len(content))) \o <<".",".",".">>

\* C3 as claimed: once more than 3 exchanges are recorded since the start or
\* the last /clear, current_context holds at most 6 entries, the strings of
\* the 3 most recent exchanges
C3_ContextBound ==
    Len(conversation_history) > 6 =>
        /\ Len(current_context) <= 6
        /\ current_context =
              [i \in 1..6 |->
                  ContextString(conversation_history[Len(conversation_history) - 6 + i])]

\* C4: no step changes a conversation record of the store or takes one away:
\* the conversations before a step are the first of the conversations after it
C4_AppendOnly ==
    [][ LET before == ConversationsOf(file)
            after  == ConversationsOf(file')
        IN  /\ Len(before) <= Len(after)
            /\ SubSeq(after, 1, Len(before)) = before ]_vars

\* C4's case: a /save has put a batch record behind the records of two
\* queries
C4_Witness ==
    /\ last.op = "save"
    /\ Len(ConversationsOf(file)) = 3
    /\ DictHas(ConversationsOf(file)[1], K_query)
    /\ DictHas(ConversationsOf(file)[2], K_query)
    /\ DictHas(ConversationsOf(file)[3], K_history)

\* C7: a query turn with a non-empty current_context makes no search and
\* builds the context of the prompt from the last 3 entries; a turn with an
\* empty one searches and builds it from the first 2 results, the topic and
\* the first 200 characters of the instructions of each; and
\* current_context is empty exactly when no exchange is recorded since the
\* start or the last /clear
C7_ContextOrSearch ==
    /\ (current_context = <<>>) <=> (conversation_history = <<>>)
    /\ last.op = "query" =>
          LET before  == last.ctx_before
              results == last.results
              snippet(r) ==
                  LET text == DictGet(r.content, K_instructions).v
                  IN  r.topic \o <<":", " ">> \o SubSeq(text, 1, Min(200, Len(text)))
          IN  IF before # <<>>
              THEN /\ ~last.searched
                   /\ results = <<>>
                   /\ last.context =
                         Join(<<"\n">>, SubSeq(before, Max(1, Len(before) - 2), Len(before)))
              ELSE /\ last.searched
                   /\ last.context =
                         Join(<<"\n">>, [i \in 1..Min(2, Len(results)) |-> snippet(results[i])])

\* C7's case: a query turn with more than 3 entries in current_context, on a
\* store with an entry the query is found in
C7_Witness ==
    /\ last.op = "query"
    /\ Len(last.ctx_before) > 3
    /\ ~last.raised
    /\ \E i \in 1..Len(CoreInstructionsOf(file)) :
          Contains(Lower(CoreInstructionsOf(file)[i][1].v), Lower(last.query))

\* C8 as claimed: when the loop is left, a batch record of the running
\* history is appended if there is history not yet saved, and nothing is
\* written if there is none: the history is empty, or /save has saved it and
\* nothing was recorded since
C8_FlushOnlyUnsaved ==
    [][ (pc = "running" /\ pc' = "exited") =>
          LET before  == ConversationsOf(file)
              after   == ConversationsOf(file')
              unsaved == conversation_history # <<>> /\ last.op # "save"
          IN  IF unsaved
              THEN /\ Len(after) = Len(before) + 1
                   /\ SubSeq(after, 1, Len(before)) = before
                   /\ DictHas(after[Len(after)], K_history)
                   /\ DictGet(after[Len(after)], K_history).v = conversation_history
              ELSE after = before ]_vars

\* C11 as claimed: a query turn whose completion call fails (the request
\* fails, times out or has an error status, or the body is not the expected
\* JSON) appends nothing to conversation_history or current_context and
\* writes nothing to the store
C11_FailedCallLeavesUnchanged ==
    [][ \A query \in UserInputs, net \in NetOutcomes :
          (net.kind \in {"transport", "malformed"} /\ UserQuery(query, net)) =>
              /\ conversation_history' = conversation_history
              /\ current_context' = current_context
              /\ ConversationsOf(file') = ConversationsOf(file)
              /\ CoreInstructionsOf(file') = CoreInstructionsOf(file) ]_vars

(***************************************************************************)
(* Properties of the storage (StorageSpec)                                 *)
(***************************************************************************)
\* C6 as claimed: whatever the store file holds, load_knowledge returns a
\* document with the four fields, and the default document when the file is
\* absent or cannot be parsed
C6_LoadGivesAllFields ==
    last.op = "load" =>
        /\ last.value.t = "dict"
        /\ \A k \in {K_summary, K_core_instructions, K_api_interactions, K_conversations} :
              DictHas(last.value, k)
        /\ (~file.exists \/ file.text.t = "garbage") =>
              last.value = PyDict(<< <<K_summary, PyList(<<>>)>>,
                                     <<K_core_instructions, PyDict(<<>>)>>,
                                     <<K_api_interactions, PyList(<<>>)>>,
                                     <<K_conversations, PyList(<<>>)>> >>)

\* C9: load_knowledge() right after save_knowledge(d) returns d
C9_RoundTrip ==
    [][ (last.op = "save_knowledge" /\ last'.op = "load") => last'.value = last.value ]_vars

\* C9's case: a document of two records and two entries, with a response of
\* tabs, line ends, a bullet and a query of 51 characters, was saved and loaded
C9_Witness ==
    /\ last.op = "load"
    /\ file = save_knowledge(last.value)
    /\ last.value.t = "dict"
    /\ DictHas(last.value, K_conversations)
    /\ DictHas(last.value, K_core_instructions)
    /\ Len(DictGet(last.value, K_conversations).v) = 2
    /\ Len(DictGet(last.value, K_core_instructions).v) = 2
    /\ \E i \in 1..2 :
          LET record == DictGet(last.value, K_conversations).v[i]
          IN  /\ DictHas(record, K_response)
              /\ \E n \in 1..Len(DictGet(record, K_response).v) :
                    DictGet(record, K_response).v[n] = Bullet

=============================================================================
